---- MODULE Spec2Model ----
(***************************************************************************)
(* Model of opennebula/framework/provider.go: OpenNebulaProvider.Configure *)
(* (configuration resolution, validation, client construction, version     *)
(* negotiation, default-tag aggregation, session exposure) and of the      *)
(* keyed mutex registry (utils.MutexKV) that Configure attaches to the     *)
(* session.                                                                *)
(***************************************************************************)
EXTENDS Integers, Sequences, FiniteSets, TLC

VARIABLES
    run,        \* the Configure invocation: locals, resp.Diagnostics, resp.*Data
    store,      \* MutexKV.store: key -> <<>> (absent) or <<lock object id>>
    guard,      \* MutexKV.lock: <<>> (free) or <<the operation inside get()>>
    locked,     \* per lock object: <<>> (unlocked) or <<the operation holding it>>
    op          \* per downstream operation: its position, key and lock reference

vars == <<run, store, guard, locked, op>>

(***************************************************************************)
(* Bounds                                                                  *)
(***************************************************************************)
MaxBlocks == 2      \* default_tags blocks in one configuration
NumOps == 3         \* concurrent object-management operations

(***************************************************************************)
(* Values of the framework's three-valued attribute types                  *)
(* (types.String, types.Bool): ValueString()/ValueBool() of a null or      *)
(* unknown value is the zero value.                                        *)
(***************************************************************************)
StringUnknown == [state |-> "unknown", value |-> ""]
StringNull == [state |-> "null", value |-> ""]
StringValue(v) == [state |-> "known", value |-> v]
BoolUnknown == [state |-> "unknown", value |-> FALSE]
BoolNull == [state |-> "null", value |-> FALSE]
BoolValue(b) == [state |-> "known", value |-> b]

IsUnknown(a) == a.state = "unknown"
IsNull(a) == a.state = "null"

\* opennebulaProviderModel, without DefaultTags (read where it is iterated)
ConfigModels ==
    [ Endpoint     : {StringUnknown, StringNull, StringValue(""), StringValue("https://a")},
      FlowEndpoint : {StringNull, StringValue("https://flow")},
      Username     : {StringUnknown, StringNull, StringValue(""), StringValue("u")},
      Password     : {StringUnknown, StringNull, StringValue(""), StringValue("p")},
      Insecure     : {BoolUnknown, BoolNull, BoolValue(TRUE), BoolValue(FALSE)} ]

\* results of req.Config.Get: no diagnostic, a warning, an error
DecodeResults == {"ok", "warning", "error"}

\* the process environment (os.Getenv gives "" for an unset variable)
Environments ==
    [ OPENNEBULA_ENDPOINT      : {"", "https://env"},
      OPENNEBULA_FLOW_ENDPOINT : {"", "https://envflow"},
      OPENNEBULA_USERNAME      : {"", "envuser"},
      OPENNEBULA_PASSWORD      : {"", "envpass"},
      OPENNEBULA_INSECURE      : {"", "true", "0", "yes"} ]

(***************************************************************************)
(* Diagnostics                                                             *)
(***************************************************************************)
NoPath == "(none)"

AttributeError(p, summary, detail) ==
    [path |-> p, severity |-> "error", summary |-> summary, detail |-> detail]

Error(summary, detail) ==
    [path |-> NoPath, severity |-> "error", summary |-> summary, detail |-> detail]

Warning(summary, detail) ==
    [path |-> NoPath, severity |-> "warning", summary |-> summary, detail |-> detail]

HasError(diags) == \E i \in 1..Len(diags) : diags[i].severity = "error"

AppendIf(diags, cond, d) == IF cond THEN Append(diags, d) ELSE diags

(***************************************************************************)
(* strconv.ParseBool: the canonical literals; anything else is an error    *)
(* and the returned value is false.                                        *)
(***************************************************************************)
TrueLiterals == {"1", "t", "T", "TRUE", "true", "True"}
FalseLiterals == {"0", "f", "F", "FALSE", "false", "False"}

ParseBool(str) ==
    [value |-> str \in TrueLiterals,
     err   |-> str \notin (TrueLiterals \cup FalseLiterals)]

(***************************************************************************)
(* The Configure invocation                                                *)
(***************************************************************************)
\* the scenario with no environment values set
NoEnv ==
    [ OPENNEBULA_ENDPOINT |-> "", OPENNEBULA_FLOW_ENDPOINT |-> "",
      OPENNEBULA_USERNAME |-> "", OPENNEBULA_PASSWORD |-> "",
      OPENNEBULA_INSECURE |-> "" ]

\* the state at entry of Configure: req.Config and the process environment
InitRun(config, env) ==
    [ pc             |-> "decode",
      config         |-> config,
      decoded        |-> "ok",
      env            |-> env,
      envRead        |-> FALSE,
      endpoint       |-> "",
      flowEndpoint   |-> "",
      username       |-> "",
      password       |-> "",
      insecure       |-> FALSE,
      diags          |-> <<>>,
      client         |-> <<>>,
      queries        |-> 0,
      remote         |-> <<>>,
      versionStr     |-> <<>>,
      version        |-> <<>>,
      cfg            |-> <<>>,
      blocks         |-> <<>>,
      tags           |-> <<>>,
      DataSourceData |-> <<>>,
      ResourceData   |-> <<>> ]

\* lines 96-102: decode the declared configuration, stop on an error
DecodeStep(s, result) ==
    LET diags == IF result = "error"
                 THEN Append(s.diags, Error("Value Conversion Error", <<"decode">>))
                 ELSE IF result = "warning"
                 THEN Append(s.diags, Warning("Value Conversion Warning", <<"decode">>))
                 ELSE s.diags
    IN [s EXCEPT !.decoded = result, !.diags = diags,
                 !.pc = IF HasError(diags) THEN "done" ELSE "unknown"]

\* UnknownStep with the password check left out
UnknownSkipPassword(s) ==
    LET d1 == AppendIf(s.diags, IsUnknown(s.config.Endpoint),
                  AttributeError("endpoint", "Unknown OpenNebula XML-RPC API endpoint",
                                 <<"OPENNEBULA_ENDPOINT">>))
        d2 == AppendIf(d1, IsUnknown(s.config.Username),
                  AttributeError("username", "Unknown OpenNebula XML-RPC API username",
                                 <<"OPENNEBULA_USERNAME">>))
    IN [s EXCEPT !.diags = d2,
                 !.pc = IF HasError(d2) THEN "done" ELSE "resolve"]

\* lines 104-133: an unknown required field is an error on its own path
UnknownStep(s) ==
    LET d1 == AppendIf(s.diags, IsUnknown(s.config.Endpoint),
                  AttributeError("endpoint", "Unknown OpenNebula XML-RPC API endpoint",
                                 <<"OPENNEBULA_ENDPOINT">>))
        d2 == AppendIf(d1, IsUnknown(s.config.Username),
                  AttributeError("username", "Unknown OpenNebula XML-RPC API username",
                                 <<"OPENNEBULA_USERNAME">>))
        d3 == AppendIf(d2, IsUnknown(s.config.Password),
                  AttributeError("password", "Unknown OpenNebula XML-RPC API password",
                                 <<"OPENNEBULA_PASSWORD">>))
    IN [s EXCEPT !.diags = d3,
                 !.pc = IF HasError(d3) THEN "done" ELSE "resolve"]

\* ResolveStep returning as soon as OPENNEBULA_INSECURE fails to parse
ResolveAbortOnParse(s) ==
    LET env == s.env
        insecureStr == env.OPENNEBULA_INSECURE
        parsed == ParseBool(insecureStr)
        bad == insecureStr # "" /\ parsed.err
        diags == AppendIf(s.diags, bad,
                     AttributeError("insecure",
                         "Failed to parse boolean value from the OPENNEBULA_INSECURE environment variable",
                         <<"OPENNEBULA_INSECURE">>))
    IN [s EXCEPT
          !.envRead = TRUE,
          !.diags = diags,
          !.endpoint = IF ~IsNull(s.config.Endpoint) THEN s.config.Endpoint.value
                       ELSE env.OPENNEBULA_ENDPOINT,
          !.flowEndpoint = IF ~IsNull(s.config.Endpoint) THEN s.config.Endpoint.value
                           ELSE env.OPENNEBULA_FLOW_ENDPOINT,
          !.username = IF ~IsNull(s.config.Username) THEN s.config.Username.value
                       ELSE env.OPENNEBULA_USERNAME,
          !.password = IF ~IsNull(s.config.Password) THEN s.config.Password.value
                       ELSE env.OPENNEBULA_PASSWORD,
          !.insecure = IF ~IsNull(s.config.Insecure) THEN s.config.Insecure.value
                       ELSE IF insecureStr # "" THEN parsed.value ELSE FALSE,
          !.pc = IF bad THEN "done" ELSE "validate"]

\* lines 135-176: environment defaults, overridden by the declared values
ResolveStep(s) ==
    LET env == s.env
        insecureStr == env.OPENNEBULA_INSECURE
        parsed == ParseBool(insecureStr)
        insecureEnv == IF insecureStr # "" THEN parsed.value ELSE FALSE
        diags == AppendIf(s.diags, insecureStr # "" /\ parsed.err,
                     AttributeError("insecure",
                         "Failed to parse boolean value from the OPENNEBULA_INSECURE environment variable",
                         <<"OPENNEBULA_INSECURE">>))
    IN [s EXCEPT
          !.envRead = TRUE,
          !.diags = diags,
          !.endpoint = IF ~IsNull(s.config.Endpoint) THEN s.config.Endpoint.value
                       ELSE env.OPENNEBULA_ENDPOINT,
          !.flowEndpoint = IF ~IsNull(s.config.Endpoint) THEN s.config.Endpoint.value
                           ELSE env.OPENNEBULA_FLOW_ENDPOINT,
          !.username = IF ~IsNull(s.config.Username) THEN s.config.Username.value
                       ELSE env.OPENNEBULA_USERNAME,
          !.password = IF ~IsNull(s.config.Password) THEN s.config.Password.value
                       ELSE env.OPENNEBULA_PASSWORD,
          !.insecure = IF ~IsNull(s.config.Insecure) THEN s.config.Insecure.value
                       ELSE insecureEnv,
          !.pc = "validate"]

\* ValidateStep without the return on HasError
ValidateNoHalt(s) ==
    LET d1 == AppendIf(s.diags, s.endpoint = "",
                  AttributeError("endpoint", "Missing OpenNebula XML-RPC endpoint",
                                 <<"OPENNEBULA_ENDPOINT">>))
        d2 == AppendIf(d1, s.username = "",
                  AttributeError("username", "Missing OpenNebula account username",
                                 <<"OPENNEBULA_USERNAME">>))
        d3 == AppendIf(d2, s.password = "",
                  AttributeError("endpoint", "Missing OpenNebula account password",
                                 <<"OPENNEBULA_PASSWORD">>))
    IN [s EXCEPT !.diags = d3, !.pc = "client"]

\* lines 178-213: every empty required field is reported, then the error check
ValidateStep(s) ==
    LET d1 == AppendIf(s.diags, s.endpoint = "",
                  AttributeError("endpoint", "Missing OpenNebula XML-RPC endpoint",
                                 <<"OPENNEBULA_ENDPOINT">>))
        d2 == AppendIf(d1, s.username = "",
                  AttributeError("username", "Missing OpenNebula account username",
                                 <<"OPENNEBULA_USERNAME">>))
        d3 == AppendIf(d2, s.password = "",
                  AttributeError("endpoint", "Missing OpenNebula account password",
                                 <<"OPENNEBULA_PASSWORD">>))
    IN [s EXCEPT !.diags = d3,
                 !.pc = IF HasError(d3) THEN "done" ELSE "client"]

\* lines 215-223: goca.NewClient over a transport with InsecureSkipVerify
NewClientStep(s) ==
    [s EXCEPT !.client = << [username |-> s.username, password |-> s.password,
                             endpoint |-> s.endpoint,
                             InsecureSkipVerify |-> s.insecure] >>,
              !.pc = "version"]

(***************************************************************************)
(* Version strings are sequences of characters.  ver.NewVersion accepts an *)
(* optional "v", dot-separated decimal segments and an optional            *)
(* pre-release part; Segments are padded to three.                         *)
(***************************************************************************)
Digits == <<"0", "1", "2", "3", "4", "5", "6", "7", "8", "9">>
Letters == {"a", "b", "c", "r", "v"}

IsDigit(c) == \E i \in 1..Len(Digits) : Digits[i] = c
DigitValue(c) == (CHOOSE i \in 1..Len(Digits) : Digits[i] = c) - 1

\* the index after the run of digits that starts at i
RECURSIVE DigitsEnd(_, _)
DigitsEnd(str, i) ==
    IF i <= Len(str) /\ IsDigit(str[i]) THEN DigitsEnd(str, i + 1) ELSE i

\* the decimal value of str[i..j-1]
RECURSIVE Atoi(_, _, _, _)
Atoi(str, i, j, acc) ==
    IF i >= j THEN acc ELSE Atoi(str, i + 1, j, acc * 10 + DigitValue(str[i]))

\* [0-9]+(\.[0-9]+)* from index i: the segments read and the index after them
RECURSIVE Segments(_, _, _)
Segments(str, i, segs) ==
    LET j == DigitsEnd(str, i)
        more == /\ j + 1 <= Len(str)
                /\ str[j] = "."
                /\ IsDigit(str[j + 1])
    IN IF j = i THEN [ok |-> FALSE, segments |-> segs, rest |-> i]
       ELSE IF more THEN Segments(str, j + 1, Append(segs, Atoi(str, i, j, 0)))
       ELSE [ok |-> TRUE, segments |-> Append(segs, Atoi(str, i, j, 0)), rest |-> j]

RECURSIVE PadSegments(_)
PadSegments(segs) == IF Len(segs) < 3 THEN PadSegments(Append(segs, 0)) ELSE segs

\* the pre-release part: empty, or "-"/a letter followed by letters and digits
PrereleaseOk(str, i) ==
    \/ i > Len(str)
    \/ /\ str[i] \in Letters \cup {"-"}
       /\ str[i] = "-" => i < Len(str)
       /\ \A k \in (i + 1)..Len(str) : str[k] \in Letters \/ IsDigit(str[k])

NewVersion(str) ==
    LET start == IF Len(str) > 0 /\ str[1] = "v" THEN 2 ELSE 1
        num == Segments(str, start, <<>>)
    IN IF num.ok /\ PrereleaseOk(str, num.rest)
       THEN [err |-> <<>>,
             version |-> << [segments |-> PadSegments(num.segments),
                             prerelease |-> SubSeq(str, num.rest, Len(str))] >>]
       ELSE [err |-> <<"Malformed version: ">> \o str, version |-> <<>>]

\* results of SystemVersion(): an error, or the version string the server sent
RemoteResults ==
    { [err |-> <<"connection refused">>, versionStr |-> <<>>],
      [err |-> <<>>, versionStr |-> <<"6", ".", "8", ".", "0">>],
      [err |-> <<>>, versionStr |-> <<"6", ".", "1", "0">>],
      [err |-> <<>>, versionStr |-> <<"6", ".", ".", "8">>],
      [err |-> <<>>, versionStr |-> <<>>] }

\* SystemVersionStep without the return after the diagnostic
SystemVersionNoReturn(s, remote) ==
    IF remote.err # <<>>
    THEN [s EXCEPT !.queries = s.queries + 1, !.remote = <<remote>>,
                   !.diags = Append(s.diags,
                       Error("Failed to get OpenNebula release number", remote.err)),
                   !.versionStr = remote.versionStr,
                   !.pc = "parse"]
    ELSE [s EXCEPT !.queries = s.queries + 1, !.remote = <<remote>>,
                   !.versionStr = remote.versionStr,
                   !.pc = "parse"]

\* lines 225-232: the system-version query
SystemVersionStep(s, remote) ==
    IF remote.err # <<>>
    THEN [s EXCEPT !.queries = s.queries + 1, !.remote = <<remote>>,
                   !.diags = Append(s.diags,
                       Error("Failed to get OpenNebula release number", remote.err)),
                   !.pc = "done"]
    ELSE [s EXCEPT !.queries = s.queries + 1, !.remote = <<remote>>,
                   !.versionStr = remote.versionStr,
                   !.pc = "parse"]

\* lines 233-240: parse the version string
NewVersionStep(s) ==
    LET parsed == NewVersion(s.versionStr)
    IN IF parsed.err # <<>>
       THEN [s EXCEPT !.diags = Append(s.diags,
                          Error("Failed to parse OpenNebula version", parsed.err)),
                      !.pc = "done"]
       ELSE [s EXCEPT !.version = parsed.version, !.pc = "controller"]

EmptyTags == [k \in {} |-> ""]

\* lines 244-260: the session object and its controller
ControllerStep(s) ==
    LET flowClient == IF s.flowEndpoint # ""
                      THEN << [username |-> s.username, password |-> s.password,
                               endpoint |-> s.flowEndpoint] >>
                      ELSE <<>>
    IN [s EXCEPT !.cfg = << [OneVersion  |-> s.version[1],
                             Mutex       |-> "NewMutexKV",
                             Controller  |-> [client |-> s.client[1],
                                              flowClient |-> flowClient],
                             DefaultTags |-> EmptyTags] >>,
                 !.pc = "tags"]

(***************************************************************************)
(* default_tags blocks.  A block either decodes or fails at one of the two *)
(* conversions of the loop.                                                *)
(***************************************************************************)
TagMap(keys, val) == [k \in keys |-> val[k]]

TagBlocks ==
    { [decode |-> "ok", tags |-> TagMap({"a", "b"}, [a |-> "1", b |-> "2"])],
      [decode |-> "ok", tags |-> TagMap({"b"}, [b |-> "3"])],
      [decode |-> "ok", tags |-> TagMap({"x"}, [x |-> "9"])],
      [decode |-> "ToTerraformValue err", tags |-> TagMap({"a"}, [a |-> "7"])],
      [decode |-> "As err", tags |-> TagMap({"x"}, [x |-> "8"])] }

RECURSIVE SeqsUpTo(_, _)
SeqsUpTo(S, n) ==
    IF n = 0 THEN {<<>>}
    ELSE LET shorter == SeqsUpTo(S, n - 1)
         IN shorter \cup {Append(q, e) : q \in shorter, e \in S}

BlockLists == SeqsUpTo(TagBlocks, MaxBlocks)

\* element.As(&tags) of a block that converts: its entries are set in tags.Elements
DecodeInto(elements, block) ==
    [k \in DOMAIN elements \cup DOMAIN block.tags |->
        IF k \in DOMAIN block.tags THEN block.tags[k] ELSE elements[k]]

\* the loop leaving at the first block that fails to convert
RECURSIVE AggregateStopOnError(_, _, _)
AggregateStopOnError(blocks, i, elements) ==
    IF i > Len(blocks) THEN elements
    ELSE IF blocks[i].decode # "ok" THEN elements
    ELSE AggregateStopOnError(blocks, i + 1, DecodeInto(elements, blocks[i]))

\* lines 262-274: the loop over config.DefaultTags.Elements()
RECURSIVE AggregateTags(_, _, _)
AggregateTags(blocks, i, elements) ==
    IF i > Len(blocks) THEN elements
    ELSE IF blocks[i].decode # "ok" THEN AggregateTags(blocks, i + 1, elements)
    ELSE AggregateTags(blocks, i + 1, DecodeInto(elements, blocks[i]))

\* lines 262-279: aggregate the default tags into the session object
TagsStep(s, blocks) ==
    LET elements == AggregateTags(blocks, 1, EmptyTags)
    IN [s EXCEPT !.blocks = blocks,
                 !.tags = <<elements>>,
                 !.cfg = << IF Cardinality(DOMAIN elements) > 0
                            THEN [s.cfg[1] EXCEPT !.DefaultTags = elements]
                            ELSE s.cfg[1] >>,
                 !.pc = "expose"]

\* lines 281-284: the session is handed to data sources and resources
ExposeStep(s) ==
    [s EXCEPT !.DataSourceData = s.cfg, !.ResourceData = s.cfg, !.pc = "done"]

\* Configure as a whole, on given inputs
Configure(config, env, result, remote, blocks) ==
    LET s1 == DecodeStep(InitRun(config, env), result)
        s2 == IF s1.pc = "done" THEN s1 ELSE UnknownStep(s1)
        s3 == IF s2.pc = "done" THEN s2 ELSE ValidateStep(ResolveStep(s2))
        s4 == IF s3.pc = "done" THEN s3 ELSE SystemVersionStep(NewClientStep(s3), remote)
        s5 == IF s4.pc = "done" THEN s4 ELSE NewVersionStep(s4)
    IN IF s5.pc = "done" THEN s5
       ELSE ExposeStep(TagsStep(ControllerStep(s5), blocks))

(***************************************************************************)
(* The keyed mutex registry (utils.MutexKV): a guard lock around the map   *)
(* of per-key locks.  Lock(key) is get(key).Lock(), Unlock(key) is         *)
(* get(key).Unlock(); get takes the guard, looks the key up, inserts a new *)
(* lock when the key is absent, and releases the guard before returning.   *)
(***************************************************************************)
Ops == 1..NumOps
Keys == {"R1", "R2"}

IdleOp == [pc |-> "idle", key |-> "R1", mode |-> "Lock", ref |-> 0, holds |-> FALSE]

\* NewMutexKV(): an empty store
NewMutexKV == [k \in Keys |-> <<>>]

\* the guard's Lock() proceeds only when the guard is free
GuardIgnored(g) == TRUE

GuardFree(g) == g = <<>>

Init ==
    /\ run \in {InitRun(config, env) : config \in ConfigModels, env \in Environments}
    /\ store = NewMutexKV
    /\ guard = <<>>
    /\ locked = <<>>
    /\ op = [p \in Ops |-> IdleOp]

\* an operation calls Lock(key)
Acquire(p, k) ==
    /\ op[p].pc = "idle"
    /\ op' = [op EXCEPT ![p] = [@ EXCEPT !.pc = "get", !.key = k, !.mode = "Lock"]]
    /\ UNCHANGED <<run, store, guard, locked>>

\* the holder calls Unlock(key)
Release(p) ==
    /\ op[p].pc = "held"
    /\ op' = [op EXCEPT ![p] = [@ EXCEPT !.pc = "get", !.mode = "Unlock"]]
    /\ UNCHANGED <<run, store, guard, locked>>

\* get: take the guard
GetGuard(p) ==
    /\ op[p].pc = "get"
    /\ GuardFree(guard)
    /\ guard' = <<p>>
    /\ op' = [op EXCEPT ![p] = [@ EXCEPT !.pc = "lookup"]]
    /\ UNCHANGED <<run, store, locked>>

\* get: look the key up in the store
Lookup(p) ==
    /\ op[p].pc = "lookup"
    /\ op' = [op EXCEPT ![p] =
                IF store[op[p].key] # <<>>
                THEN [@ EXCEPT !.ref = store[op[p].key][1], !.pc = "return"]
                ELSE [@ EXCEPT !.pc = "insert"]]
    /\ UNCHANGED <<run, store, guard, locked>>

\* get: the key was absent, insert a new lock object
Insert(p) ==
    /\ op[p].pc = "insert"
    /\ locked' = Append(locked, <<>>)
    /\ store' = [store EXCEPT ![op[p].key] = <<Len(locked) + 1>>]
    /\ op' = [op EXCEPT ![p] = [@ EXCEPT !.ref = Len(locked) + 1, !.pc = "return"]]
    /\ UNCHANGED <<run, guard>>

\* get: release the guard and return the lock object
ReturnLock(p) ==
    /\ op[p].pc = "return"
    /\ guard' = <<>>
    /\ op' = [op EXCEPT ![p] = [@ EXCEPT !.pc = op[p].mode]]
    /\ UNCHANGED <<run, store, locked>>

\* Lock() of the per-key lock: blocks while it is locked
MutexLock(p) ==
    /\ op[p].pc = "Lock"
    /\ locked[op[p].ref] = <<>>
    /\ locked' = [locked EXCEPT ![op[p].ref] = <<p>>]
    /\ op' = [op EXCEPT ![p] = [@ EXCEPT !.pc = "held", !.holds = TRUE]]
    /\ UNCHANGED <<run, store, guard>>

\* Unlock() of the per-key lock
MutexUnlock(p) ==
    /\ op[p].pc = "Unlock"
    /\ locked' = [locked EXCEPT ![op[p].ref] = <<>>]
    /\ op' = [op EXCEPT ![p] = [@ EXCEPT !.pc = "idle", !.holds = FALSE]]
    /\ UNCHANGED <<run, store, guard>>

Decode ==
    /\ run.pc = "decode"
    /\ \E result \in DecodeResults : run' = DecodeStep(run, result)
    /\ UNCHANGED <<store, guard, locked, op>>

CheckUnknown ==
    /\ run.pc = "unknown"
    /\ run' = UnknownStep(run)
    /\ UNCHANGED <<store, guard, locked, op>>

Resolve ==
    /\ run.pc = "resolve"
    /\ run' = ResolveStep(run)
    /\ UNCHANGED <<store, guard, locked, op>>

Validate ==
    /\ run.pc = "validate"
    /\ run' = ValidateStep(run)
    /\ UNCHANGED <<store, guard, locked, op>>

NewClient ==
    /\ run.pc = "client"
    /\ run' = NewClientStep(run)
    /\ UNCHANGED <<store, guard, locked, op>>

SystemVersion ==
    /\ run.pc = "version"
    /\ \E remote \in RemoteResults : run' = SystemVersionStep(run, remote)
    /\ UNCHANGED <<store, guard, locked, op>>

ParseVersion ==
    /\ run.pc = "parse"
    /\ run' = NewVersionStep(run)
    /\ UNCHANGED <<store, guard, locked, op>>

NewController ==
    /\ run.pc = "controller"
    /\ run' = ControllerStep(run)
    /\ UNCHANGED <<store, guard, locked, op>>

DefaultTags ==
    /\ run.pc = "tags"
    /\ \E blocks \in BlockLists : run' = TagsStep(run, blocks)
    /\ UNCHANGED <<store, guard, locked, op>>

Expose ==
    /\ run.pc = "expose"
    /\ run' = ExposeStep(run)
    /\ UNCHANGED <<store, guard, locked, op>>

Next ==
    \/ Decode
    \/ CheckUnknown
    \/ Resolve
    \/ Validate
    \/ NewClient
    \/ SystemVersion
    \/ ParseVersion
    \/ NewController
    \/ DefaultTags
    \/ Expose

Spec == Init /\ [][Next]_vars

\* the registry in use by the operations that received the session
NextMutex ==
    \/ \E p \in Ops, k \in Keys : Acquire(p, k)
    \/ \E p \in Ops : Release(p)
    \/ \E p \in Ops : GetGuard(p)
    \/ \E p \in Ops : Lookup(p)
    \/ \E p \in Ops : Insert(p)
    \/ \E p \in Ops : ReturnLock(p)
    \/ \E p \in Ops : MutexLock(p)
    \/ \E p \in Ops : MutexUnlock(p)

InitMutex ==
    /\ run = InitRun(CHOOSE c \in ConfigModels : TRUE, NoEnv)
    /\ store = NewMutexKV
    /\ guard = <<>>
    /\ locked = <<>>
    /\ op = [p \in Ops |-> IdleOp]

SpecMutex == InitMutex /\ [][NextMutex]_vars

(***************************************************************************)
(* Properties                                                              *)
(***************************************************************************)
Required == {"endpoint", "username", "password"}

Declared(f) ==
    CASE f = "endpoint" -> run.config.Endpoint
      [] f = "username" -> run.config.Username
      [] f = "password" -> run.config.Password

Resolved(f) ==
    CASE f = "endpoint" -> run.endpoint
      [] f = "username" -> run.username
      [] f = "password" -> run.password

UnknownSummary ==
    [endpoint |-> "Unknown OpenNebula XML-RPC API endpoint",
     username |-> "Unknown OpenNebula XML-RPC API username",
     password |-> "Unknown OpenNebula XML-RPC API password"]

MissingSummary ==
    [endpoint |-> "Missing OpenNebula XML-RPC endpoint",
     username |-> "Missing OpenNebula account username",
     password |-> "Missing OpenNebula account password"]

InsecureSummary ==
    "Failed to parse boolean value from the OPENNEBULA_INSECURE environment variable"

VersionSummaries ==
    {"Failed to get OpenNebula release number", "Failed to parse OpenNebula version"}

DiagIndexes == 1..Len(run.diags)
ErrorIndexes == {i \in DiagIndexes : run.diags[i].severity = "error"}
NoSession == run.DataSourceData = <<>> /\ run.ResourceData = <<>>
SomeRequiredUnknown == \E f \in Required : IsUnknown(Declared(f))
InsecureDiagnosed ==
    \E i \in ErrorIndexes :
        run.diags[i].path = "insecure" /\ run.diags[i].summary = InsecureSummary

\* the precedence the specification states: declared if known, else environment
Precedence(declared, fromEnv) ==
    IF declared.state = "known" THEN declared.value ELSE fromEnv

\* C1: once Configure has resolved its values, each of endpoint, username,
\* password and insecure is the declared value when that is known and
\* non-null, otherwise the environment value, otherwise the default.
C1_ResolutionPrecedence ==
    run.envRead =>
        /\ run.endpoint = Precedence(run.config.Endpoint, run.env.OPENNEBULA_ENDPOINT)
        /\ run.username = Precedence(run.config.Username, run.env.OPENNEBULA_USERNAME)
        /\ run.password = Precedence(run.config.Password, run.env.OPENNEBULA_PASSWORD)
        /\ run.insecure = Precedence(run.config.Insecure,
                                     run.env.OPENNEBULA_INSECURE \in TrueLiterals)

\* the flow endpoint as resolved from its own declared field and variable
OwnFlowEndpoint ==
    IF ~IsNull(run.config.FlowEndpoint) THEN run.config.FlowEndpoint.value
    ELSE run.env.OPENNEBULA_FLOW_ENDPOINT

EndToEndScenario ==
    /\ run.config = [Endpoint |-> StringValue("https://a"), FlowEndpoint |-> StringNull,
                     Username |-> StringValue("u"), Password |-> StringValue("p"),
                     Insecure |-> BoolNull]
    /\ run.env = NoEnv
    /\ run.remote = << [err |-> <<>>, versionStr |-> <<"6", ".", "8", ".", "0">>] >>
    /\ run.blocks = <<>>

\* C2: in a successful Configure the controller has a flow client exactly
\* when the flow endpoint resolved from flow_endpoint / OPENNEBULA_FLOW_ENDPOINT
\* is non-empty; the end-to-end scenario gives version 6.8.0, no default
\* tags and no flow client.
C2_FlowClientFromOwnSources ==
    run.DataSourceData # <<>> =>
        /\ (run.DataSourceData[1].Controller.flowClient # <<>>) <=> (OwnFlowEndpoint # "")
        /\ EndToEndScenario =>
              /\ run.DataSourceData[1].OneVersion.segments = <<6, 8, 0>>
              /\ run.DataSourceData[1].DefaultTags = EmptyTags
              /\ run.DataSourceData[1].Controller.flowClient = <<>>

\* C3: when an error diagnostic from decoding, an unknown required field, a
\* malformed OPENNEBULA_INSECURE or a missing required field exists, the
\* client has not been constructed and no system-version query was issued.
C3_NoNetworkAfterError ==
    /\ (\E i \in ErrorIndexes : run.diags[i].summary \notin VersionSummaries)
          => run.client = <<>> /\ run.queries = 0
    /\ run.pc \in {"client", "version"} => ~HasError(run.diags)
    /\ run.queries <= 1

C3_Witness ==
    /\ run.pc = "done"
    /\ run.envRead
    /\ InsecureDiagnosed
    /\ run.client = <<>>
    /\ run.queries = 0

\* C4: after validation every empty required field has exactly one error
\* diagnostic about it, scoped to that field's own attribute path, and a
\* non-empty field has none.
C4_MissingFieldsScoped ==
    (run.envRead /\ run.pc # "validate") =>
        \A f \in Required :
            LET about == {i \in DiagIndexes : run.diags[i].summary = MissingSummary[f]}
            IN /\ Cardinality(about) = (IF Resolved(f) = "" THEN 1 ELSE 0)
               /\ \A i \in about : run.diags[i].severity = "error" /\ run.diags[i].path = f

ScopedUnknown(f) ==
    \E i \in ErrorIndexes :
        run.diags[i].path = f /\ run.diags[i].summary = UnknownSummary[f]

\* C5 as stated: a required field declared unknown always ends Configure with
\* an error diagnostic scoped to that field and with no session.
C5_UnknownAlwaysScoped ==
    \A f \in Required :
        IsUnknown(Declared(f)) =>
            /\ NoSession
            /\ run.pc = "done" => ScopedUnknown(f)

\* C5 as amended: a required field declared unknown always ends Configure with
\* an error diagnostic and no session; the diagnostic is scoped to that field
\* whenever decoding the configuration reported no error.
C5_UnknownScopedAfterDecode ==
    \A f \in Required :
        IsUnknown(Declared(f)) =>
            /\ NoSession
            /\ run.pc = "done" =>
                  /\ HasError(run.diags)
                  /\ run.decoded # "error" => ScopedUnknown(f)

C5_Witness ==
    /\ run.pc = "done"
    /\ run.decoded = "warning"
    /\ IsUnknown(run.config.Password)
    /\ ~IsUnknown(run.config.Endpoint)
    /\ ScopedUnknown("password")
    /\ NoSession

MalformedInsecureEnv ==
    /\ IsNull(run.config.Insecure)
    /\ run.env.OPENNEBULA_INSECURE # ""
    /\ run.env.OPENNEBULA_INSECURE \notin (TrueLiterals \cup FalseLiterals)

MissingCollected ==
    \A f \in Required :
        Resolved(f) = "" =>
            \E i \in ErrorIndexes : run.diags[i].summary = MissingSummary[f]

\* C6 as stated: with insecure undeclared and a malformed OPENNEBULA_INSECURE,
\* Configure ends with an error diagnostic on the insecure attribute, an
\* effective flag of false, and the required-field validation has run.
C6_MalformedAlwaysDiagnosed ==
    (run.pc = "done" /\ MalformedInsecureEnv) =>
        /\ InsecureDiagnosed
        /\ run.insecure = FALSE
        /\ run.envRead

\* C6 as amended: the same, provided decoding reported no error and no
\* required field is declared unknown (otherwise Configure returns before it
\* reads the environment); the parse failure does not end the run, the
\* missing-field diagnostics are collected and only then the run halts.
C6_MalformedDiagnosedWhenReached ==
    (/\ MalformedInsecureEnv
     /\ run.pc # "decode"
     /\ run.decoded # "error"
     /\ ~SomeRequiredUnknown) =>
        /\ run.pc \in {"unknown", "resolve", "validate", "done"}
        /\ run.pc \in {"validate", "done"} =>
              /\ InsecureDiagnosed
              /\ run.insecure = FALSE
        /\ run.pc = "done" =>
              /\ run.envRead
              /\ MissingCollected
              /\ run.client = <<>>
              /\ NoSession

C6_Witness ==
    /\ run.pc = "done"
    /\ MalformedInsecureEnv
    /\ InsecureDiagnosed
    /\ run.insecure = FALSE
    /\ run.username = ""
    /\ run.endpoint # ""
    /\ \E i \in ErrorIndexes : run.diags[i].summary = MissingSummary["username"]

LastDiag == run.diags[Len(run.diags)]

\* C7: a failed system-version query and a failed parse of the version each
\* end Configure with exactly one error diagnostic, unscoped and carrying the
\* underlying error, and with no session; a session is exposed only when no
\* error diagnostic exists.
C7_VersionFailures ==
    /\ (run.pc = "done" /\ run.remote # <<>> /\ run.remote[1].err # <<>>) =>
          /\ Cardinality(ErrorIndexes) = 1
          /\ LastDiag = Error("Failed to get OpenNebula release number", run.remote[1].err)
          /\ NoSession
    /\ (run.pc = "done" /\ run.remote # <<>> /\ run.remote[1].err = <<>>
           /\ run.version = <<>>) =>
          /\ Cardinality(ErrorIndexes) = 1
          /\ LastDiag = Error("Failed to parse OpenNebula version",
                              <<"Malformed version: ">> \o run.remote[1].versionStr)
          /\ NoSession
    /\ ~NoSession =>
          /\ ~HasError(run.diags)
          /\ run.pc = "done"
          /\ run.DataSourceData = run.cfg
          /\ run.ResourceData = run.cfg

C7_Witness ==
    /\ run.pc = "done"
    /\ run.decoded = "warning"
    /\ run.remote # <<>>
    /\ run.remote[1].versionStr = <<"6", ".", ".", "8">>
    /\ Len(run.diags) = 2
    /\ NoSession

\* the last block that converts and carries key k
OkWith(blocks, k) ==
    {i \in 1..Len(blocks) : blocks[i].decode = "ok" /\ k \in DOMAIN blocks[i].tags}

LastWins(blocks) ==
    [k \in {k \in {"a", "b", "x"} : OkWith(blocks, k) # {}} |->
        blocks[CHOOSE i \in OkWith(blocks, k) : \A j \in OkWith(blocks, k) : j <= i].tags[k]]

BlockAB == [decode |-> "ok", tags |-> TagMap({"a", "b"}, [a |-> "1", b |-> "2"])]
BlockB == [decode |-> "ok", tags |-> TagMap({"b"}, [b |-> "3"])]
BlockX == [decode |-> "ok", tags |-> TagMap({"x"}, [x |-> "9"])]
BlockBad == [decode |-> "As err", tags |-> TagMap({"x"}, [x |-> "8"])]

C9_KeyedMutualExclusion ==
    /\ \A p, q \in Ops :
          (p # q /\ op[p].holds /\ op[q].holds) => op[p].key # op[q].key
    /\ \A p \in Ops :
          op[p].pc \in {"Lock", "held", "Unlock"} => store[op[p].key] = <<op[p].ref>>
    /\ \A k1, k2 \in Keys :
          (k1 # k2 /\ store[k1] # <<>>) => store[k1] # store[k2]
    /\ \A p \in Ops :
          (op[p].pc = "Lock" /\ locked[op[p].ref] # <<>>) =>
              \E q \in Ops : q # p /\ op[q].holds /\ op[q].key = op[p].key
    /\ guard # <<>> => op[guard[1]].pc \in {"lookup", "insert", "return"}

C9_Witness ==
    \E p, q, r \in Ops :
        /\ op[p].holds /\ op[p].key = "R1"
        /\ op[q].holds /\ op[q].key = "R2"
        /\ op[r].pc = "Lock" /\ op[r].key = "R1" /\ ~op[r].holds

InsecureEnvValues == {e.OPENNEBULA_INSECURE : e \in Environments}

Outcome(s) ==
    [diags |-> s.diags, insecure |-> s.insecure, session |-> s.DataSourceData # <<>>]

\* C10: with insecure declared and known, a finished run has the same
\* diagnostics, effective insecure flag and session-or-no-session outcome as
\* the run on the same inputs with any other value of OPENNEBULA_INSECURE.
C10_EnvInsecureHasNoEffect ==
    (run.pc = "done" /\ run.config.Insecure.state = "known") =>
        \A e \in InsecureEnvValues :
        \A remote \in (IF run.remote # <<>> THEN {run.remote[1]} ELSE RemoteResults) :
        \A blocks \in (IF run.tags # <<>> THEN {run.blocks} ELSE BlockLists) :
            Outcome(Configure(run.config,
                              [run.env EXCEPT !.OPENNEBULA_INSECURE = e],
                              run.decoded, remote, blocks)) = Outcome(run)
====
